---- MODULE Spec2Model ----
(***************************************************************************)
(* The "31 Days" habit tracker (src/src/helloworld/app.py): the Task       *)
(* record with its check-in and round logic, its dict (de)serialisation,   *)
(* the JSON persistence of the task collection, and the handlers of        *)
(* ThirtyOneDaysApp that mutate the collection.                            *)
(*                                                                         *)
(* Two specifications share the definitions of the Task methods:           *)
(*   SpecTask  drives one Task object through its public methods;          *)
(*   Spec      is the application: startup, handlers, save_tasks.          *)
(***************************************************************************)
EXTENDS Integers, Sequences, FiniteSets, TLC

(***************************************************************************)
(* Bounds of the model.                                                    *)
(***************************************************************************)
\* The wall clock `now` counts whole seconds from 0, the first second of day 0,
\* to MaxNow; a day has SecsPerDay seconds.
SecsPerDay == 2
MaxNow == 2
\* Largest `rounds` value found in a persisted record.
MaxRounds == 1
\* Longest persisted check_ins array that mixes legacy strings and records.
MaxMixedLen == 3
\* Spec: most tasks in the collection and in a persisted file (add_task is not
\* offered beyond it).
MaxTasks == 2
\* Spec: most dismiss callbacks pending at once, and most notification
\* containers nested around a page.
MaxPending == 1
MaxDepth == 1
\* Spec: most I/O failures (of the read at startup, of open and of json.dump in
\* save_tasks) in one run.
MaxFaults == 1

\* Task.days_required: 31 days per round (app.py line 30).
DaysPerRound == 31

\* The days the clock runs over: day 0 .. MaxDays - 1.
MaxDays == (MaxNow \div SecsPerDay) + 1

Notes == {"", "n"}
Names == {"Read"}

(***************************************************************************)
(* The clock and its three renderings used by the code.                    *)
(***************************************************************************)
\* str(int(datetime.datetime.now().timestamp())): the second, in decimal.
Timestamp(t) == ToString(t)
\* datetime.datetime.now().isoformat(): the clock's reading as a string.
IsoFormat(t) == ToString(t)
\* datetime.date.today(): the calendar day.
Today(t) == t \div SecsPerDay
\* datetime.datetime.now().strftime('%H:%M:%S'): second of the day; 0 is '00:00:00'.
TimeOfDay(t) == t % SecsPerDay

(***************************************************************************)
(* JSON / Python values.  A value the code tests with isinstance carries   *)
(* its type in `tag`.  A date string is Str(d), d the day number it names. *)
(***************************************************************************)
None == [tag |-> "none"]
Str(v) == [tag |-> "str", val |-> v]
\* A check-in record {'date': .., 'time': .., 'note': ..}.
CheckInRecord(date, time, note) ==
    [tag |-> "dict", date |-> date, time |-> time, note |-> note]
\* dict.get(key): None when the key is missing.
Get(d, key) == IF key \in DOMAIN d THEN d[key] ELSE None

(***************************************************************************)
(* class Task                                                              *)
(***************************************************************************)
\* Task.__init__(name, id, created_at, check_ins, rounds).  A missing id or
\* created_at (None) is passed as "", a missing check_ins (None) as << >>: the
\* code only tests them with `or`.  t1, t2 are the two readings of the clock.
Task_init(name, id, created_at, check_ins, rounds, t1, t2) ==
    [id         |-> IF id # "" THEN id ELSE Timestamp(t1),
     name       |-> name,
     created_at |-> IF created_at # "" THEN created_at ELSE IsoFormat(t2),
     check_ins  |-> check_ins,
     rounds     |-> rounds]

days_required(self) == DaysPerRound * self.rounds

days_completed(self) == Len(self.check_ins)

\* A variant that forgets the round: the first 31 days complete every round.
is_completed_first_round_only(self) == days_completed(self) >= DaysPerRound

is_completed(self) == days_completed(self) >= days_required(self)

\* A variant that looks at records only and misses legacy date strings.
can_check_in_today_records_only(self, today) ==
    ~ \E i \in 1..Len(self.check_ins) :
        LET check_in == self.check_ins[i] IN
           check_in.tag = "dict" /\ Get(check_in, "date") = today

\* today is the isoformat string of the day read from the clock.
can_check_in_today(self, today) ==
    ~ \E i \in 1..Len(self.check_ins) :
        LET check_in == self.check_ins[i] IN
           \/ check_in.tag = "dict" /\ Get(check_in, "date") = today
           \/ check_in.tag = "str" /\ check_in = today

\* A variant that appends without asking can_check_in_today.
check_in_unguarded(self, note, t1, t2, t3) ==
    [ret  |-> TRUE,
     self |-> [self EXCEPT !.check_ins =
                 Append(@, CheckInRecord(Str(Today(t2)), TimeOfDay(t3), note))]]

\* Task.check_in(note).  t1 is the clock read by can_check_in_today, t2 the one
\* read for 'date', t3 the one read for 'time'.  The result is the return value
\* and the object after the call.
check_in(self, note, t1, t2, t3) ==
    IF can_check_in_today(self, Str(Today(t1)))
    THEN [ret  |-> TRUE,
          self |-> [self EXCEPT !.check_ins =
                      Append(@, CheckInRecord(Str(Today(t2)), TimeOfDay(t3), note))]]
    ELSE [ret |-> FALSE, self |-> self]

\* A variant that starts the next round from an empty history.
start_next_round_reset(self) ==
    IF is_completed(self)
    THEN [ret |-> TRUE, self |-> [self EXCEPT !.rounds = @ + 1, !.check_ins = << >>]]
    ELSE [ret |-> FALSE, self |-> self]

start_next_round(self) ==
    IF is_completed(self)
    THEN [ret |-> TRUE, self |-> [self EXCEPT !.rounds = @ + 1]]
    ELSE [ret |-> FALSE, self |-> self]

to_dict(self) ==
    [tag        |-> "dict",
     id         |-> self.id,
     name       |-> self.name,
     created_at |-> self.created_at,
     check_ins  |-> self.check_ins,
     rounds     |-> self.rounds]

\* from_dict raises (AttributeError on a value that is no dict, KeyError on a
\* missing key) instead of returning a Task.
from_dict_raises(data) ==
    \/ data.tag # "dict"
    \/ ~ ({"name", "id", "created_at", "rounds"} \subseteq DOMAIN data)

\* A variant that leaves `rounds` at the constructor's default.
from_dict_default_rounds(data, t1, t2) ==
    LET check_ins == IF "check_ins" \in DOMAIN data THEN data.check_ins ELSE << >>
        legacy == check_ins # << >> /\ check_ins[1].tag = "str"
        new_check_ins ==
            [i \in 1..Len(check_ins) |-> CheckInRecord(check_ins[i], 0, "")]
    IN  Task_init(data.name, data.id, data.created_at,
                  IF legacy THEN new_check_ins ELSE check_ins,
                  1, t1, t2)

\* A variant without the upgrade of legacy date strings.
from_dict_no_upgrade(data, t1, t2) ==
    LET check_ins == IF "check_ins" \in DOMAIN data THEN data.check_ins ELSE << >>
    IN  Task_init(data.name, data.id, data.created_at, check_ins, data.rounds, t1, t2)

\* Task.from_dict(data), for data on which it does not raise.
from_dict(data, t1, t2) ==
    LET check_ins == IF "check_ins" \in DOMAIN data THEN data.check_ins ELSE << >>
        legacy == check_ins # << >> /\ check_ins[1].tag = "str"
        new_check_ins ==
            [i \in 1..Len(check_ins) |-> CheckInRecord(check_ins[i], 0, "")]
    IN  Task_init(data.name, data.id, data.created_at,
                  IF legacy THEN new_check_ins ELSE check_ins,
                  data.rounds, t1, t2)

(***************************************************************************)
(* State.                                                                  *)
(***************************************************************************)
VARIABLES
    now,     \* the wall clock, in seconds
    task,    \* SpecTask: the Task object under the calls, None before it is built
    data,    \* SpecTask: the persisted record the Task was built from, None for Task(name)
    op,      \* SpecTask: the last call made
    ret,     \* SpecTask: what the last call returned
    heap,    \* Spec: the Task objects created so far; a reference is an index
    tasks,   \* Spec: self.tasks, a sequence of references
    file,    \* Spec: tasks.json
    pc,      \* Spec: where the application is: start, idle, inside save_tasks, ..
    handler, \* Spec: the handler that called save_tasks
    load_error,       \* Spec: load_tasks printed its error message
    save_status,      \* Spec: how the last save_tasks ended: none, ok, error
    content,          \* Spec: self.main_window.content
    previous_content, \* Spec: self.previous_content
    original_content, \* Spec: self.original_content
    pending,          \* Spec: dismiss callbacks scheduled and not yet run
    tasks_box,        \* Spec: the task widgets built by the last refresh_tasks
    current_task,     \* Spec: self.current_task
    task_to_delete,   \* Spec: self.task_to_delete
    faults            \* Spec: the I/O failures so far

taskVars == <<task, data, op, ret>>
uiVars == <<content, previous_content, original_content, pending, tasks_box,
            current_task, task_to_delete>>
appVars == <<heap, tasks, file, pc, handler, load_error, save_status, faults, uiVars>>

\* The clock readings a call can make after a reading t: time does not go back,
\* and at most one second passes between two readings of one call.
Later(t) == {u \in t..(t + 1) : u <= MaxNow}

(***************************************************************************)
(* Persisted records given to Task.from_dict.                              *)
(***************************************************************************)
\* k legacy date strings for the k days up to `last`, oldest first.
LegacyRun(k, last) == [i \in 1..k |-> Str(last - k + i)]
\* The same days as records, as Task.check_in wrote them.
RecordRun(k, last) ==
    [i \in 1..k |-> CheckInRecord(Str(last - k + i), i % SecsPerDay,
                                  IF i = k THEN "n" ELSE "")]
\* Numbers of check-ins persisted with rounds = r.  Round r began with at least
\* 31 * (r - 1) check-ins; of the possible numbers, those from which the days of
\* the clock can reach, or have just passed, the beginning or end of a round.
InitLens(r) ==
    {k \in (DaysPerRound * (r - 1))..(DaysPerRound * r + MaxDays - 1) :
        \/ k % DaysPerRound < MaxDays
        \/ k % DaysPerRound > DaysPerRound - MaxDays}
\* Entries of short arrays that mix both forms; no two carry the same date.
MixedEntries ==
    {Str(0), Str(-1), CheckInRecord(Str(-2), 1, "n"), CheckInRecord(Str(-3), 0, "")}
MixedLists ==
    UNION {{s \in [1..n -> MixedEntries] : \A i, j \in 1..n : i # j => s[i] # s[j]} :
             n \in 0..MaxMixedLen}
\* The arrays persisted with rounds = r; the last check-in is of yesterday or
\* of the day the clock starts in.
CheckInLists(r) ==
    {LegacyRun(k, last) : k \in InitLens(r), last \in {-1, 0}}
      \cup {RecordRun(k, last) : k \in InitLens(r), last \in {-1, 0}}
      \cup (IF r = 1 THEN MixedLists ELSE {})
TaskDict(id, name, created_at, check_ins, rounds) ==
    [tag |-> "dict", id |-> id, name |-> name, created_at |-> created_at,
     check_ins |-> check_ins, rounds |-> rounds]
TaskDicts ==
    UNION {{TaskDict(Timestamp(-1), "Read", IsoFormat(-1), cs, r) :
              cs \in CheckInLists(r)} : r \in 1..MaxRounds}
      \cup {TaskDict("", "", "", << >>, 1),
            [tag |-> "dict", id |-> Timestamp(-1), name |-> "Read",
             created_at |-> IsoFormat(-1), rounds |-> 1]}

(***************************************************************************)
(* SpecTask: one Task object and the calls of its methods.                 *)
(***************************************************************************)
\* A page shown in the main window: its kind, and the number of notification
\* containers (show_notification) wrapped around it.
Page(kind) == [kind |-> kind, depth |-> 0]
\* An attribute not set yet (hasattr is false), or no reference.
NoPage == Page("none")
NoRef == 0
\* tasks.json: absent, or a text holding the items written so far and, once the
\* array is closed, parsing as JSON.
NoFile == [exists |-> FALSE, items |-> << >>, closed |-> FALSE]

InitTask ==
    /\ now = 0
    /\ task = None
    /\ data = None
    /\ op = "none"
    /\ ret = None
    /\ heap = << >>
    /\ tasks = << >>
    /\ file = NoFile
    /\ pc = "start"
    /\ handler = "none"
    /\ load_error = FALSE
    /\ save_status = "none"
    /\ content = NoPage
    /\ previous_content = NoPage
    /\ original_content = NoPage
    /\ pending = 0
    /\ tasks_box = << >>
    /\ current_task = NoRef
    /\ task_to_delete = NoRef
    /\ faults = 0

\* Task(name)
TaskNew ==
    /\ task = None
    /\ \E name \in Names \cup {""}, t1 \in Later(now) : \E t2 \in Later(t1) :
          /\ task' = Task_init(name, "", "", << >>, 1, t1, t2)
          /\ op' = "Task"
          /\ ret' = task'
          /\ now' = t2
    /\ UNCHANGED <<data, appVars>>

\* Task.from_dict(data) on a persisted record
TaskFromDict ==
    /\ task = None
    /\ \E d \in TaskDicts, t1 \in Later(now) : \E t2 \in Later(t1) :
          /\ ~ from_dict_raises(d)
          /\ data' = d
          /\ task' = from_dict(d, t1, t2)
          /\ op' = "from_dict"
          /\ ret' = task'
          /\ now' = t2
    /\ UNCHANGED appVars

\* task.check_in(note)
TaskCheckIn(note) ==
    /\ task # None
    /\ \E t2 \in Later(now) : \E t3 \in Later(t2) :
          LET r == check_in(task, note, now, t2, t3) IN
             /\ task' = r.self
             /\ op' = "check_in"
             /\ ret' = r.ret
             /\ now' = t3
    /\ UNCHANGED <<data, appVars>>

\* task.start_next_round()
TaskStartNextRound ==
    /\ task # None
    /\ LET r == start_next_round(task) IN
          /\ task' = r.self
          /\ op' = "start_next_round"
          /\ ret' = r.ret
    /\ UNCHANGED <<now, data, appVars>>

\* Task.from_dict(task.to_dict()): a second object, the first untouched
TaskRoundTrip ==
    /\ task # None
    /\ op' = "round_trip"
    /\ ret' = from_dict(to_dict(task), now, now)
    /\ UNCHANGED <<now, task, data, appVars>>

\* a second passes between two calls
TaskTick ==
    /\ now < MaxNow
    /\ now' = now + 1
    /\ UNCHANGED <<taskVars, appVars>>

NextTask ==
    \/ TaskNew
    \/ TaskFromDict
    \/ \E note \in Notes : TaskCheckIn(note)
    \/ TaskStartNextRound
    \/ TaskRoundTrip
    \/ TaskTick

vars == <<now, taskVars, appVars>>

SpecTask == InitTask /\ [][NextTask]_vars

(***************************************************************************)
(* class ThirtyOneDaysApp: persistence.                                    *)
(***************************************************************************)
\* Records found in tasks.json at startup: a legacy task one check-in short of
\* its first round, a current task that checked in today, and a record
\* without 'name'.
FileItems ==
    {TaskDict(Timestamp(-2), "Read", IsoFormat(-2), LegacyRun(DaysPerRound - 1, -1), 1),
     TaskDict(Timestamp(-1), "Run", IsoFormat(-1), RecordRun(1, 0), 1),
     [tag |-> "dict", id |-> Timestamp(-1), created_at |-> IsoFormat(-1),
      check_ins |-> << >>, rounds |-> 1]}
\* tasks.json at startup: absent, text that is no JSON, or an array of distinct
\* items.
InitFiles ==
    {NoFile, [exists |-> TRUE, items |-> << >>, closed |-> FALSE]}
      \cup UNION {{[exists |-> TRUE, items |-> s, closed |-> TRUE] :
                     s \in {q \in [1..n -> FileItems] :
                              \A i, j \in 1..n : i # j => q[i] # q[j]}} :
                  n \in 0..MaxTasks}

\* The body of load_tasks' try block: what it returns, or that it raised.
\* io_ok: open() and the read succeed.
load_tasks_try(f, io_ok, t) ==
    IF ~ f.exists
    THEN [raised |-> FALSE, val |-> << >>]
    ELSE IF ~ io_ok \/ ~ f.closed
              \/ \E i \in 1..Len(f.items) : from_dict_raises(f.items[i])
         THEN [raised |-> TRUE, val |-> << >>]
         ELSE [raised |-> FALSE,
               val |-> [i \in 1..Len(f.items) |-> from_dict(f.items[i], t, t)]]

\* A variant that drops the records from_dict fails on and keeps the others.
load_tasks_skip_malformed(f, io_ok, t) ==
    IF ~ f.exists
    THEN [raised |-> FALSE, error |-> FALSE, val |-> << >>]
    ELSE IF ~ io_ok \/ ~ f.closed
         THEN [raised |-> FALSE, error |-> TRUE, val |-> << >>]
         ELSE LET good == SelectSeq(f.items, LAMBDA d : ~ from_dict_raises(d))
              IN  [raised |-> FALSE, error |-> FALSE,
                   val |-> [i \in 1..Len(good) |-> from_dict(good[i], t, t)]]

\* load_tasks: `except Exception` prints the error and returns [].
load_tasks(f, io_ok, t) ==
    LET r == load_tasks_try(f, io_ok, t) IN
      IF r.raised
      THEN [raised |-> FALSE, error |-> TRUE, val |-> << >>]
      ELSE [raised |-> FALSE, error |-> FALSE, val |-> r.val]

\* The notes typed into the check-in dialog.
DialogNotes == {"n"}
\* Most Task objects created in one run (add_task is not offered beyond it).
MaxObjects == MaxTasks

\* The tasks of the collection, as objects.
Collection(h, ts) == [i \in 1..Len(ts) |-> h[ts[i]]]
\* save_tasks: tasks_data = [task.to_dict() for task in self.tasks]
tasks_data(h, ts) == [i \in 1..Len(ts) |-> to_dict(h[ts[i]])]

(***************************************************************************)
(* class ThirtyOneDaysApp: pages and widgets.                              *)
(***************************************************************************)
\* show_notification puts the content into a new container under the overlay.
Wrap(page) == [page EXCEPT !.depth = @ + 1]

\* A variant whose check-in button does not look at is_completed.
create_task_widget_any_round(h, ref, t) ==
    [task             |-> ref,
     check_in_enabled |-> can_check_in_today(h[ref], Str(Today(t))),
     next_round       |-> is_completed(h[ref])]

\* create_task_widget(task): the buttons of one task, as built at time t.
create_task_widget(h, ref, t) ==
    [task             |-> ref,
     check_in_enabled |-> can_check_in_today(h[ref], Str(Today(t))) /\ ~ is_completed(h[ref]),
     next_round       |-> is_completed(h[ref])]

\* refresh_tasks: one widget per task of self.tasks.
refresh_tasks(h, ts, t) == [i \in 1..Len(ts) |-> create_task_widget(h, ts[i], t)]

\* The buttons of a page can be pressed while it is the content, alone or under
\* a notification, and no handler is running.
OnPage(kind) == pc = "idle" /\ content.kind = kind
HasWidget(ref) == \E i \in 1..Len(tasks_box) : tasks_box[i].task = ref
\* Room for one more notification on `page`.
CanNotify(page) == pending < MaxPending /\ page.depth < MaxDepth

\* show_notification(message), called with `page` as the window's content.
show_notification(page) ==
    /\ content' = Wrap(page)
    /\ original_content' = page
    /\ pending' = pending + 1

(***************************************************************************)
(* Spec: the application.                                                  *)
(***************************************************************************)
ctlVars == <<pc, handler>>
ioVars == <<file, load_error, save_status, faults>>

Init ==
    /\ now = 0
    /\ task = None
    /\ data = None
    /\ op = "none"
    /\ ret = None
    /\ heap = << >>
    /\ tasks = << >>
    /\ file \in InitFiles
    /\ pc = "start"
    /\ handler = "none"
    /\ load_error = FALSE
    /\ save_status = "none"
    /\ content = NoPage
    /\ previous_content = NoPage
    /\ original_content = NoPage
    /\ pending = 0
    /\ tasks_box = << >>
    /\ current_task = NoRef
    /\ task_to_delete = NoRef
    /\ faults = 0

\* An I/O operation succeeds, or fails while the run has failures left.
IO(ok) ==
    /\ ok \/ faults < MaxFaults
    /\ faults' = IF ok THEN faults ELSE faults + 1

\* startup: load_tasks, the main page, refresh_tasks
startup ==
    /\ pc = "start"
    /\ \E io_ok \in BOOLEAN :
         LET r == load_tasks(file, io_ok, now) IN
           /\ io_ok \/ file.exists
           /\ IO(io_ok)
           /\ IF r.raised
              THEN /\ pc' = "crashed"
                   /\ UNCHANGED <<heap, tasks, load_error, content, tasks_box>>
              ELSE /\ heap' = r.val
                   /\ tasks' = [i \in 1..Len(r.val) |-> i]
                   /\ load_error' = r.error
                   /\ content' = Page("main")
                   /\ tasks_box' = refresh_tasks(heap', tasks', now)
                   /\ pc' = "idle"
    /\ UNCHANGED <<now, taskVars, file, handler, save_status, previous_content,
                   original_content, pending, current_task, task_to_delete>>

\* A variant that opens the file for appending and keeps what it holds.
save_tasks_open_append ==
    /\ pc = "save_open"
    /\ \E ok \in BOOLEAN :
         /\ IO(ok)
         /\ IF ok
            THEN /\ file' = [file EXCEPT !.exists = TRUE, !.closed = FALSE]
                 /\ pc' = "save_dump"
                 /\ UNCHANGED save_status
            ELSE /\ save_status' = "error"
                 /\ pc' = "after_save"
                 /\ UNCHANGED file
    /\ UNCHANGED <<now, taskVars, heap, tasks, handler, load_error, uiVars>>

\* save_tasks, first part: mkdir and open(data_path, 'w'), which empties the
\* file; a failure is printed and save_tasks returns.
save_tasks_open ==
    /\ pc = "save_open"
    /\ \E ok \in BOOLEAN :
         /\ IO(ok)
         /\ IF ok
            THEN /\ file' = [exists |-> TRUE, items |-> << >>, closed |-> FALSE]
                 /\ pc' = "save_dump"
                 /\ UNCHANGED save_status
            ELSE /\ save_status' = "error"
                 /\ pc' = "after_save"
                 /\ UNCHANGED file
    /\ UNCHANGED <<now, taskVars, heap, tasks, handler, load_error, uiVars>>

\* save_tasks, second part: json.dump writes the items one after the other and
\* closes the array; a failure after n items is printed and save_tasks returns.
save_tasks_dump ==
    /\ pc = "save_dump"
    /\ LET all == tasks_data(heap, tasks) IN
         \E n \in 0..Len(all), ok \in BOOLEAN :
            /\ ok => n = Len(all)
            /\ IO(ok)
            /\ file' = [file EXCEPT !.items = @ \o SubSeq(all, 1, n), !.closed = ok]
            /\ save_status' = IF ok THEN "ok" ELSE "error"
    /\ pc' = "after_save"
    /\ UNCHANGED <<now, taskVars, heap, tasks, handler, load_error, uiVars>>

\* The rest of the handler that called save_tasks: back to the previous page
\* (not for start_next_round), refresh_tasks, show_notification.
after_save ==
    /\ pc = "after_save"
    /\ LET page == IF handler # "start_next_round" /\ previous_content # NoPage
                   THEN previous_content ELSE content
       IN  show_notification(page)
    /\ tasks_box' = refresh_tasks(heap, tasks, now)
    /\ pc' = "idle"
    /\ handler' = "none"
    /\ UNCHANGED <<now, taskVars, heap, tasks, ioVars, previous_content,
                   current_task, task_to_delete>>

show_add_task_dialog ==
    /\ OnPage("main")
    /\ previous_content' = content
    /\ content' = Page("add")
    /\ UNCHANGED <<now, taskVars, heap, tasks, ioVars, ctlVars, original_content,
                   pending, tasks_box, current_task, task_to_delete>>

\* close_add_task_dialog, close_check_in_dialog, close_task_details and
\* cancel_delete_task: back to previous_content.
back_to_previous ==
    /\ content' = IF previous_content # NoPage THEN previous_content ELSE content
    /\ UNCHANGED <<now, taskVars, heap, tasks, ioVars, ctlVars, previous_content,
                   original_content, pending, tasks_box, current_task,
                   task_to_delete>>

close_add_task_dialog == OnPage("add") /\ back_to_previous

\* add_task with a name: up to save_tasks
add_task(task_name) ==
    /\ OnPage("add")
    /\ task_name # ""
    /\ Len(tasks) < MaxTasks
    /\ Len(heap) < MaxObjects
    /\ CanNotify(previous_content)
    /\ \E t1 \in Later(now) : \E t2 \in Later(t1) :
          /\ heap' = Append(heap, Task_init(task_name, "", "", << >>, 1, t1, t2))
          /\ tasks' = Append(tasks, Len(heap) + 1)
          /\ now' = t2
    /\ pc' = "save_open"
    /\ handler' = "add_task"
    /\ UNCHANGED <<taskVars, ioVars, uiVars>>

\* add_task with the input left empty
add_task_empty ==
    /\ OnPage("add")
    /\ CanNotify(content)
    /\ show_notification(content)
    /\ UNCHANGED <<now, taskVars, heap, tasks, ioVars, ctlVars, previous_content,
                   tasks_box, current_task, task_to_delete>>

check_in_task(ref) ==
    /\ OnPage("main")
    /\ \E i \in 1..Len(tasks_box) :
          tasks_box[i].task = ref /\ tasks_box[i].check_in_enabled
    /\ IF ~ can_check_in_today(heap[ref], Str(Today(now)))
       THEN /\ CanNotify(content)
            /\ show_notification(content)
            /\ UNCHANGED <<previous_content, current_task>>
       ELSE /\ previous_content' = content
            /\ current_task' = ref
            /\ content' = Page("check_in")
            /\ UNCHANGED <<original_content, pending>>
    /\ UNCHANGED <<now, taskVars, heap, tasks, ioVars, ctlVars, tasks_box,
                   task_to_delete>>

close_check_in_dialog == OnPage("check_in") /\ back_to_previous

\* A variant that records the check-in and does not call save_tasks.
confirm_check_in_no_save(note) ==
    /\ OnPage("check_in")
    /\ current_task # NoRef
    /\ \E t2 \in Later(now) : \E t3 \in Later(t2) :
          LET r == check_in(heap[current_task], note, now, t2, t3) IN
            IF r.ret
            THEN /\ heap' = [heap EXCEPT ![current_task] = r.self]
                 /\ now' = t3
            ELSE UNCHANGED <<heap, now>>
    /\ UNCHANGED <<taskVars, tasks, ioVars, ctlVars, uiVars>>

\* confirm_check_in: up to save_tasks; nothing happens when check_in refuses
confirm_check_in(note) ==
    /\ OnPage("check_in")
    /\ current_task # NoRef
    /\ CanNotify(previous_content)
    /\ \E t2 \in Later(now) : \E t3 \in Later(t2) :
          LET r == check_in(heap[current_task], note, now, t2, t3) IN
            IF r.ret
            THEN /\ heap' = [heap EXCEPT ![current_task] = r.self]
                 /\ now' = t3
                 /\ pc' = "save_open"
                 /\ handler' = "confirm_check_in"
            ELSE UNCHANGED <<heap, now, pc, handler>>
    /\ UNCHANGED <<taskVars, tasks, ioVars, uiVars>>

\* ThirtyOneDaysApp.start_next_round(task): up to save_tasks
app_start_next_round(ref) ==
    /\ OnPage("main")
    /\ \E i \in 1..Len(tasks_box) : tasks_box[i].task = ref /\ tasks_box[i].next_round
    /\ CanNotify(content)
    /\ LET r == start_next_round(heap[ref]) IN
         IF r.ret
         THEN /\ heap' = [heap EXCEPT ![ref] = r.self]
              /\ pc' = "save_open"
              /\ handler' = "start_next_round"
         ELSE UNCHANGED <<heap, pc, handler>>
    /\ UNCHANGED <<now, taskVars, tasks, ioVars, uiVars>>

\* show_task_details: created_at always parses, it is an isoformat string
show_task_details(ref) ==
    /\ OnPage("main")
    /\ HasWidget(ref)
    /\ previous_content' = content
    /\ content' = Page("details")
    /\ UNCHANGED <<now, taskVars, heap, tasks, ioVars, ctlVars, original_content,
                   pending, tasks_box, current_task, task_to_delete>>

close_task_details == OnPage("details") /\ back_to_previous

delete_task(ref) ==
    /\ OnPage("main")
    /\ HasWidget(ref)
    /\ previous_content' = content
    /\ task_to_delete' = ref
    /\ content' = Page("confirm")
    /\ UNCHANGED <<now, taskVars, heap, tasks, ioVars, ctlVars, original_content,
                   pending, tasks_box, current_task>>

cancel_delete_task == OnPage("confirm") /\ back_to_previous

\* confirm_delete_task: up to save_tasks
confirm_delete_task ==
    /\ OnPage("confirm")
    /\ task_to_delete # NoRef
    /\ CanNotify(previous_content)
    /\ tasks' = SelectSeq(tasks, LAMBDA ref : heap[ref].id # heap[task_to_delete].id)
    /\ pc' = "save_open"
    /\ handler' = "confirm_delete_task"
    /\ UNCHANGED <<now, taskVars, heap, ioVars, uiVars>>

\* auto_close_notification has slept and scheduled
\* _close_notification_on_main_thread, which now runs.
close_notification ==
    /\ pc = "idle"
    /\ pending > 0
    /\ pending' = pending - 1
    /\ content' = IF original_content # NoPage THEN original_content ELSE content
    /\ UNCHANGED <<now, taskVars, heap, tasks, ioVars, ctlVars, previous_content,
                   original_content, tasks_box, current_task, task_to_delete>>

\* a second passes while the application waits for the user
Tick ==
    /\ pc = "idle"
    /\ now < MaxNow
    /\ now' = now + 1
    /\ UNCHANGED <<taskVars, appVars>>

Refs == 1..MaxObjects

Next ==
    \/ startup
    \/ save_tasks_open
    \/ save_tasks_dump
    \/ after_save
    \/ show_add_task_dialog
    \/ close_add_task_dialog
    \/ \E task_name \in Names : add_task(task_name)
    \/ add_task_empty
    \/ \E ref \in Refs : check_in_task(ref)
    \/ close_check_in_dialog
    \/ \E note \in DialogNotes : confirm_check_in(note)
    \/ \E ref \in Refs : app_start_next_round(ref)
    \/ \E ref \in Refs : show_task_details(ref)
    \/ close_task_details
    \/ \E ref \in Refs : delete_task(ref)
    \/ cancel_delete_task
    \/ confirm_delete_task
    \/ close_notification
    \/ Tick

Spec == Init /\ [][Next]_vars

(***************************************************************************)
(* Properties of the Task methods (SpecTask).                              *)
(***************************************************************************)
\* The date an entry of check_ins carries: a legacy string is its own date.
EntryDate(entry) == IF entry.tag = "str" THEN entry ELSE Get(entry, "date")
HasDate(self, date) ==
    \E i \in 1..Len(self.check_ins) : EntryDate(self.check_ins[i]) = date

\* C1: Task.check_in is idempotent per calendar date.  A call made when an entry
\* with today's date exists returns false and leaves the task as it was; a call
\* made when none exists returns true and appends exactly one record
\* {date: today, time: now, note: note} at the end (today and now as the call
\* reads them), every other field unchanged, so that the task then has an entry
\* with that date and a second call on that date is of the first kind.
C1_CheckInIdempotentPerDate ==
    [][\A note \in Notes :
         TaskCheckIn(note) =>
           IF HasDate(task, Str(Today(now)))
           THEN ret' = FALSE /\ task' = task
           ELSE /\ ret' = TRUE
                /\ \E t2 \in now..now' : \E t3 \in t2..now' :
                     /\ task' = [task EXCEPT !.check_ins =
                          Append(@, CheckInRecord(Str(Today(t2)), TimeOfDay(t3), note))]
                     /\ HasDate(task', Str(Today(t2)))]_vars

\* A task built by Task(name) that checked in today and whose second call on the
\* same date was rejected.
C1_Witness ==
    /\ task # None /\ data = None
    /\ op = "check_in" /\ ret = FALSE
    /\ Len(task.check_ins) = 1
    /\ task.check_ins[1].date = Str(Today(now))

\* C2: in every reachable state no two entries of the task's check_ins carry the
\* same date, whether the task came from Task(name) or from from_dict on a
\* persisted record, after any calls of check_in and start_next_round over the
\* days of the clock.
C2_OneCheckInPerDate ==
    task # None =>
      \A i, j \in 1..Len(task.check_ins) :
         i # j => EntryDate(task.check_ins[i]) # EntryDate(task.check_ins[j])

\* A task loaded from a persisted record that kept a legacy string for today and
\* has since checked in on a later day.
C2_Witness ==
    /\ task # None /\ data # None
    /\ \E i \in 1..Len(task.check_ins) : task.check_ins[i] = Str(0)
    /\ HasDate(task, Str(1))

\* C3: rounds advances only when the current round is completed.  A call of
\* start_next_round with days_completed < days_required returns false and changes
\* nothing, and every step that changes rounds adds exactly one to it, from a
\* state with at least 31 * rounds check-ins.
C3_RoundsAdvanceOnlyWhenCompleted ==
    [][(task # None /\ task' # None) =>
         /\ (TaskStartNextRound /\ Len(task.check_ins) < DaysPerRound * task.rounds)
              => (ret' = FALSE /\ task' = task)
         /\ (task'.rounds # task.rounds)
              => /\ task'.rounds = task.rounds + 1
                 /\ Len(task.check_ins) >= DaysPerRound * task.rounds]_vars

\* start_next_round refused one day short of the end of the round.
C3_Witness ==
    /\ task # None
    /\ op = "start_next_round" /\ ret = FALSE
    /\ Len(task.check_ins) = DaysPerRound * task.rounds - 1

\* C4: a successful start_next_round on a task with rounds = r keeps check_ins,
\* id, name and created_at, hence days_completed; days_required becomes
\* 31 * (r + 1); a task with exactly 31 * r check-ins is completed before the
\* call and not completed after it.
C4_NextRoundKeepsHistory ==
    [][(task # None /\ TaskStartNextRound /\ ret' = TRUE) =>
         /\ task'.check_ins = task.check_ins
         /\ task'.id = task.id
         /\ task'.name = task.name
         /\ task'.created_at = task.created_at
         /\ days_completed(task') = days_completed(task)
         /\ days_required(task') = DaysPerRound * (task.rounds + 1)
         /\ (Len(task.check_ins) = DaysPerRound * task.rounds)
              => (is_completed(task) /\ ~ is_completed(task'))]_vars

\* The second round started on a task with exactly 31 check-ins.
C4_Witness ==
    /\ task # None
    /\ op = "start_next_round" /\ ret = TRUE
    /\ task.rounds = 2
    /\ Len(task.check_ins) = DaysPerRound
    /\ days_required(task) = 2 * DaysPerRound
    /\ ~ is_completed(task)

\* C5: from_dict(to_dict(t)) equals t field for field, for a task built from a
\* legacy record (date strings) and for one built from a current record.
C5_RoundTrip ==
    op = "round_trip" =>
      /\ ret.id = task.id
      /\ ret.name = task.name
      /\ ret.created_at = task.created_at
      /\ ret.check_ins = task.check_ins
      /\ ret.rounds = task.rounds

\* The round trip of a task that was loaded from legacy date strings, started a
\* second round and checked in since.
C5_Witness ==
    /\ op = "round_trip"
    /\ data # None /\ "check_ins" \in DOMAIN data
    /\ data.check_ins # << >> /\ data.check_ins[1].tag = "str"
    /\ task.rounds > data.rounds
    /\ Len(task.check_ins) > Len(data.check_ins)

\* What C6 expects of one persisted entry.
Upgraded(entry) == IF entry.tag = "str" THEN CheckInRecord(entry, 0, "") ELSE entry
Homogeneous(check_ins) ==
    \/ \A i \in 1..Len(check_ins) : check_ins[i].tag = "str"
    \/ \A i \in 1..Len(check_ins) : check_ins[i].tag = "dict"

\* C6 as stated: for any persisted check_ins array whose entries are each a
\* legacy date string or a record, from_dict turns each string s into
\* {date: s, time: '00:00:00', note: ''}, keeps each record, and keeps order and
\* count.
C6_UpgradeEveryEntry ==
    (op = "from_dict" /\ "check_ins" \in DOMAIN data) =>
      ret.check_ins = [i \in 1..Len(data.check_ins) |-> Upgraded(data.check_ins[i])]

\* C6 as amended: the same, for a persisted array whose entries are all legacy
\* date strings or all records.
C6_UpgradeHomogeneous ==
    (op = "from_dict" /\ "check_ins" \in DOMAIN data
       /\ Homogeneous(data.check_ins)) =>
      ret.check_ins = [i \in 1..Len(data.check_ins) |-> Upgraded(data.check_ins[i])]

\* A record with the single legacy check-in of yesterday, loaded as one record
\* with time '00:00:00' and an empty note.
C6_Witness ==
    /\ op = "from_dict"
    /\ "check_ins" \in DOMAIN data
    /\ data.check_ins = <<Str(-1)>>
    /\ ret.check_ins = <<CheckInRecord(Str(-1), 0, "")>>

(***************************************************************************)
(* Properties of the application (Spec).                                   *)
(***************************************************************************)
\* A step of confirm_delete_task up to its call of save_tasks.
DeleteStep == pc = "idle" /\ pc' = "save_open" /\ handler' = "confirm_delete_task"

\* C7: confirm_delete_task removes exactly the selected task: the collection
\* after it is the previous collection without that one task, the other tasks
\* staying in their order.
C7_DeleteRemovesExactlyOne ==
    [][DeleteStep =>
         tasks' = SelectSeq(tasks, LAMBDA ref : ref # task_to_delete)]_vars

\* Two tasks added within one second carry the same id.
C7_DuplicateIds ==
    /\ Len(tasks) = 2
    /\ tasks[1] # tasks[2]
    /\ heap[tasks[1]].id = heap[tasks[2]].id

\* The collection changes only in a handler, which goes on to save_tasks.
SavedAfterMutation ==
    /\ (pc = "idle" /\ Collection(heap', tasks') # Collection(heap, tasks))
         => pc' = "save_open"
    /\ pc \in {"save_open", "save_dump", "after_save"} => UNCHANGED <<heap, tasks>>
    /\ pc' = "idle" => pc \in {"start", "idle", "after_save"}
    /\ pc' = "after_save" => pc \in {"save_open", "save_dump"}

\* The file holds the to_dict form of the collection, and load_tasks gives the
\* collection back.
FileHoldsCollection ==
    /\ file.exists /\ file.closed
    /\ Len(file.items) = Len(tasks)
    /\ \A i \in 1..Len(tasks) : file.items[i] = to_dict(heap[tasks[i]])
    /\ load_tasks(file, TRUE, now).val = Collection(heap, tasks)

\* C8: every handler that changes the collection calls save_tasks before the
\* next user operation can begin, and after a save that succeeded the file
\* holds the to_dict form of every task in order, so that loading it gives the
\* collection back.
C8_SaveFollowsMutation ==
    [][/\ SavedAfterMutation
       /\ (pc' \in {"after_save", "idle"} /\ save_status' = "ok")
            => FileHoldsCollection']_vars

\* A check-in has been saved: the file holds the collection with its record.
C8_Witness ==
    /\ pc = "idle"
    /\ save_status = "ok"
    /\ \E i \in 1..Len(tasks) :
          /\ heap[tasks[i]].check_ins # << >>
          /\ heap[tasks[i]].check_ins[Len(heap[tasks[i]].check_ins)].note = "n"
    /\ FileHoldsCollection

\* The file holds the first n items of the collection's serialization.
HoldsLeadingPart(n) ==
    /\ n <= Len(tasks)
    /\ file.items = SubSeq(tasks_data(heap, tasks), 1, n)

\* C9 as stated: whenever the content of the file changes, it becomes the
\* complete new collection; no empty or partial content is ever in the file.
C9_AtomicRewrite ==
    [][file' # file =>
         /\ file'.closed
         /\ file'.items = tasks_data(heap', tasks')]_vars

\* C9, amended: save_tasks empties the file and then writes the collection
\* from its start. The content of the file changes only inside save_tasks; from
\* then on it is a leading part of the new collection's serialization,
\* possibly empty, without anything of the previous content, and it is the
\* complete collection exactly when the save succeeded.
C9_TruncateThenWrite ==
    [][/\ file' # file => pc \in {"save_open", "save_dump"}
       /\ pc = "save_open" =>
            \/ file' = file /\ save_status' = "error"
            \/ file'.exists /\ ~ file'.closed /\ file'.items = << >>
       /\ pc = "save_dump" =>
            /\ \E n \in 0..Len(tasks) : HoldsLeadingPart(n)'
            /\ file'.closed <=> save_status' = "ok"
            /\ file'.closed => HoldsLeadingPart(Len(tasks))']_vars

\* A save of two tasks failed after the first: the file holds a part of the
\* collection and does not parse.
C9_Witness ==
    /\ pc = "after_save"
    /\ save_status = "error"
    /\ file.exists /\ ~ file.closed
    /\ Len(tasks) = 2
    /\ HoldsLeadingPart(1)

\* The file parses as a JSON array.
ValidArray(f) == f.exists /\ f.closed
\* Every item of the array is a record Task.from_dict accepts.
WellFormed(f) == \A i \in 1..Len(f.items) : ~ from_dict_raises(f.items[i])

\* C10: load_tasks never raises; it returns the empty list when the file does
\* not exist, and also when the file cannot be read or parsed or one record of
\* the array is malformed; when the file holds a valid array it returns one
\* task per record, in file order.
C10_LoadNeverRaises ==
    [][pc = "start" =>
         /\ pc' = "idle"
         /\ ~ file.exists => tasks' = << >> /\ ~ load_error'
         /\ (file.exists /\ ~ (ValidArray(file) /\ WellFormed(file)))
              => tasks' = << >> /\ load_error'
         /\ load_error' => tasks' = << >>
         /\ (ValidArray(file) /\ WellFormed(file) /\ ~ load_error')
              => /\ Len(tasks') = Len(file.items)
                 /\ \A i \in 1..Len(tasks') :
                      /\ heap'[tasks'[i]].name = file.items[i].name
                      /\ heap'[tasks'[i]].id = file.items[i].id
                      /\ Len(heap'[tasks'[i]].check_ins)
                           = Len(file.items[i].check_ins)]_vars

\* A valid array with one well-formed and one malformed record was loaded as
\* the empty list.
C10_Witness ==
    /\ pc = "idle"
    /\ file = [exists |-> TRUE, closed |-> TRUE, items |-> file.items]
    /\ Len(file.items) = 2
    /\ \E i, j \in 1..2 :
          from_dict_raises(file.items[i]) /\ ~ from_dict_raises(file.items[j])
    /\ load_error
    /\ tasks = << >>
    /\ save_status = "none"

\* A check-in was appended to the task behind `ref` in this step.
RecordsCheckIn(ref) ==
    /\ ref \in DOMAIN heap
    /\ Len(heap'[ref].check_ins) > Len(heap[ref].check_ins)

\* C11: the application records no check-in for a task whose current round is
\* already completed, so that days_completed <= days_required holds for every
\* task in every state.
C11_NoCheckInBeyondRound ==
    [][/\ \A ref \in Refs : RecordsCheckIn(ref) => ~ is_completed(heap[ref])
       /\ \A ref \in DOMAIN heap' :
            days_completed(heap'[ref]) <= days_required(heap'[ref])]_vars

\* A task completed its round through the check-in dialog, a new day has come
\* on which it has no check-in yet, and its check-in button is disabled.
C11_Witness ==
    /\ pc = "idle"
    /\ content.kind = "main"
    /\ \E i \in 1..Len(tasks_box) :
          LET self == heap[tasks_box[i].task] IN
            /\ tasks[i] = tasks_box[i].task
            /\ is_completed(self)
            /\ self.check_ins[Len(self.check_ins)].note = "n"
            /\ can_check_in_today(self, Str(Today(now)))
            /\ ~ tasks_box[i].check_in_enabled

\* A step of _close_notification_on_main_thread.
DismissStep == pc = "idle" /\ pc' = "idle" /\ pending' = pending - 1

\* The page without its innermost notification container.
WithoutOverlay(page) ==
    IF page.depth > 0 THEN [page EXCEPT !.depth = @ - 1] ELSE page

\* C12: when a dismiss callback runs, the window content becomes the page the
\* user is on, without the overlay; a page opened after the notification
\* appeared is never replaced by an earlier page.
C12_DismissOnlyRemovesOverlay ==
    [][DismissStep => content' = WithoutOverlay(content)]_vars

\* A dialog opened while a notification was pending has been replaced by the
\* page the notification was shown on.
C12_StalePageRestored ==
    /\ pc = "idle"
    /\ pending = 0
    /\ content.kind = "main"
    /\ original_content = content
    /\ previous_content = Wrap(content)
    /\ current_task # NoRef

====
